---- MODULE Spec2Model ----
(***************************************************************************)
(* Route optimizer of src/server.ts: findShortestPath dispatches on the    *)
(* matrix side to the simulated-annealing refiner (findOptimalPath) or to  *)
(* the greedy nearest-neighbour loop; calculateTotalDistance accounts the  *)
(* cost of the returned route.                                             *)
(*                                                                         *)
(* JavaScript numbers are modelled as integers extended with the values    *)
(* Inf, NegInf and NaN.  Arrays are sequences, JS index k being TLA+ index *)
(* k + 1; a read outside the array yields Undefined, a write outside it    *)
(* extends the array.  temperature is kept in fixed point, in units of     *)
(* 1 / TempScale, rounded to nearest at each cooling step.                 *)
(***************************************************************************)
EXTENDS Integers, Sequences, FiniteSets

\* ---------------------------------------------------------------- bounds
MaxSmallN == 3      \* matrix sides 0..MaxSmallN take the annealing branch
MaxLargeN == 11     \* matrix sides AnnealMaxN+1..MaxLargeN take the greedy branch
RandDenom == 3      \* index draws are the uniform values k / RandDenom
MaxStall == 2       \* greedy loop iterations observed beyond the n - 1 needed

\* ------------------------------------------------------ program constants
AnnealMaxN == 10            \* if (n <= 10)
InitialTemperature == 1000  \* let temperature = 1000
CoolingPermille == 995      \* const coolingRate = 0.995
Inf == 2000000000           \* Infinity
TempScale == 1000000        \* the 1 of (temperature > 1), in fixed point
ExpUnderflowMilli == 745133 \* Math.exp(x) is 0 for x below -745.133...

NaN == Inf + 1
NegInf == 0 - Inf
Undefined == 0 - 1
NoIndex == 0 - 1            \* let nextIndex = -1

\* ------------------------------------------------------------ JS numbers
IsFinite(a) == a # Inf /\ a # NegInf /\ a # NaN

\* a + b for costs (never negative, never NaN)
Plus(a, b) == IF a = Inf \/ b = Inf THEN Inf ELSE a + b

\* a - b
Minus(a, b) ==
    IF a = Inf /\ b = Inf THEN NaN
    ELSE IF a = Inf THEN Inf
    ELSE IF b = Inf THEN NegInf
    ELSE a - b

\* a < b
LessThan(a, b) == a # NaN /\ b # NaN /\ a < b

\* ------------------------------------------------------------- JS arrays
ArrayGet(arr, k) == IF k + 1 \in DOMAIN arr THEN arr[k + 1] ELSE Undefined

ArraySet(arr, k, v) ==
    [x \in 1..(IF k + 1 > Len(arr) THEN k + 1 ELSE Len(arr)) |->
        IF x = k + 1 THEN v ELSE IF x \in DOMAIN arr THEN arr[x] ELSE Undefined]

\* Array.from({ length: n }, (_, i) => i)
IdentityPath(n) == [x \in 1..n |-> x - 1]

\* [newPath[i], newPath[j]] = [newPath[j], newPath[i]]
Swap(arr, i, j) ==
    LET a == ArrayGet(arr, j)
        b == ArrayGet(arr, i)
    IN  ArraySet(ArraySet(arr, i, a), j, b)

\* --------------------------------------------------------- cost functions
Dist(distances, i, j) == distances[i + 1][j + 1]

RECURSIVE SumEdges(_, _, _, _)
\* total += distances[path[i]][path[i + 1]] for i = from .. upto - 1
SumEdges(distances, path, from, upto) ==
    IF from >= upto THEN 0
    ELSE Plus(SumEdges(distances, path, from, upto - 1),
              Dist(distances, ArrayGet(path, upto - 1), ArrayGet(path, upto)))

\* the closure of findOptimalPath: loop bound n - 1
calculatePathDistance(distances, path) ==
    SumEdges(distances, path, 0, Len(distances) - 1)

\* mutant: the cost of the closed tour, with the edge back to the start
calculateTourDistance(distances, path) ==
    IF Len(path) < 2 THEN 0
    ELSE Plus(SumEdges(distances, path, 0, Len(path) - 1),
              Dist(distances, ArrayGet(path, Len(path) - 1), ArrayGet(path, 0)))

\* the exported helper: loop bound path.length - 1
calculateTotalDistance(distances, path) ==
    SumEdges(distances, path, 0, Len(path) - 1)

\* ---------------------------------------------------------- random draws
\* mutant: the + 1 that keeps position 0 out of the swap is missing
RandomIndexFromZero(n, k) == (k * (n - 1)) \div RandDenom

\* Math.floor(Math.random() * (n - 1)) + 1, Math.random() = k / RandDenom
RandomIndex(n, k) == ((k * (n - 1)) \div RandDenom) + 1

\* the values of i and j the draws can produce
IndexDraws(n) == {RandomIndex(n, k) : k \in 0..(RandDenom - 1)}

\* the acceptance draw takes the two extreme values of Math.random():
\* "min" is 0 and "max" is the largest double below 1
AcceptDraws == {"min", "max"}

\* Math.exp(delta / temperature) > 0
ExpPositive(delta, temperature) ==
    LET tm == temperature \div 1000
    IN  \/ delta >= 0
        \/ (0 - delta) * 1000 < (ExpUnderflowMilli \div 1000) * tm
                                + ((ExpUnderflowMilli % 1000) * tm) \div 1000

\* Math.exp(delta / temperature) > Math.random()
ExpBeatsDraw(delta, temperature, draw) ==
    IF delta = NaN \/ delta = NegInf THEN FALSE
    ELSE IF delta = Inf THEN TRUE
    ELSE IF draw = "min" THEN ExpPositive(delta, temperature)
    ELSE delta >= 0

\* mutant: no unconditional acceptance of an improvement, operands of the
\* difference exchanged
AcceptsDrawOnly(currentDistance, newDistance, temperature, draw) ==
    ExpBeatsDraw(Minus(newDistance, currentDistance), temperature, draw)

\* newDistance < currentDistance || Math.exp(...) > Math.random()
Accepts(currentDistance, newDistance, temperature, draw) ==
    \/ LessThan(newDistance, currentDistance)
    \/ ExpBeatsDraw(Minus(currentDistance, newDistance), temperature, draw)

\* the outcomes of the acceptance test over the draws
Decisions(currentDistance, newDistance, temperature) ==
    {Accepts(currentDistance, newDistance, temperature, draw) : draw \in AcceptDraws}

\* the arrays newPath can be after the swap, over the draws of i and j
Proposals(len, currentPath) ==
    {Swap(currentPath, i, j) : i \in IndexDraws(len), j \in IndexDraws(len)}

\* mutant: every accepted proposal is recorded as the best
NewBestAlways(accepted, newDistance, bestDistance) == accepted

\* mutant: an infinite bestDistance is never replaced
NewBestFiniteOnly(accepted, newDistance, bestDistance) ==
    accepted /\ IsFinite(bestDistance) /\ LessThan(newDistance, bestDistance)

\* if (accepted) { ...; if (newDistance < bestDistance) { ... } }
NewBest(accepted, newDistance, bestDistance) ==
    accepted /\ LessThan(newDistance, bestDistance)

\* mutant: coolingRate 0.99
CoolFaster(temperature) == temperature - ((temperature + 50) \div 100)

\* temperature *= coolingRate
\* (t * 0.995 = t - t / 200, the quotient rounded to nearest)
Cool(temperature) ==
    LET divisor == 1000 \div (1000 - CoolingPermille)
    IN  temperature - ((temperature + divisor \div 2) \div divisor)

\* temperature > 1
Hot(temperature) == temperature > TempScale

\* ----------------------------------------------------------- greedy scan
RECURSIVE Scan(_, _, _, _, _, _)
\* for (let i = 0; i < n; i++) { if (!visited.has(i)) { ... } }
Scan(distances, path, visited, i, minDistance, nextIndex) ==
    IF i >= Len(distances) THEN nextIndex
    ELSE IF i \in visited
         THEN Scan(distances, path, visited, i + 1, minDistance, nextIndex)
         ELSE LET lastIndex == path[Len(path)]
                  distance == Dist(distances, lastIndex, i)
              IN  IF LessThan(distance, minDistance)
                  THEN Scan(distances, path, visited, i + 1, distance, i)
                  ELSE Scan(distances, path, visited, i + 1, minDistance, nextIndex)

NextIndex(distances, path, visited) ==
    Scan(distances, path, visited, 0, Inf, NoIndex)

\* ------------------------------------------------------- input matrices
Bases == {"absdiff", "flat", "skew", "far"}

BaseCost(b, i, j) ==
    LET d == IF i >= j THEN i - j ELSE j - i
    IN  IF b = "absdiff" THEN d
        ELSE IF b = "flat" THEN 1
        ELSE IF b = "skew" THEN ((3 * i + 5 * j) % 7) + 1
        ELSE 1000 * d

OffDiagonal(n) == {p \in (0..(n - 1)) \X (0..(n - 1)) : p[1] # p[2]}

\* the unreachable pairs: none, a single ordered pair, or every pair
InfSets(n) == {{}} \cup {{p} : p \in OffDiagonal(n)} \cup {OffDiagonal(n)}

Matrix(n, b, infs) ==
    [x \in 1..n |-> [y \in 1..n |->
        IF <<x - 1, y - 1>> \in infs THEN Inf ELSE BaseCost(b, x - 1, y - 1)]]

Sizes == (0..MaxSmallN) \cup ((AnnealMaxN + 1)..MaxLargeN)

SmallSizes == {m \in Sizes : m <= AnnealMaxN}
LargeSizes == Sizes \ SmallSizes

MatricesOf(sizes) ==
    UNION {{Matrix(m, b, infs) : b \in Bases, infs \in InfSets(m)} : m \in sizes}

\* ------------------------------------------------------------------ state
VARIABLES
    distances,      \* the argument of findShortestPath
    pc,             \* "call", "anneal", "greedy", "returned", "done"
    currentPath, bestPath, bestDistance, temperature,   \* findOptimalPath
    path, visited,  \* the greedy loop of findShortestPath
    result,         \* the array findShortestPath returned
    totalDistance,  \* calculateTotalDistance(distances, path) of the handler
    iterations,     \* history: loop iterations run so far
    minProposed     \* history: least newDistance proposed so far

vars == <<distances, pc, currentPath, bestPath, bestDistance, temperature,
          path, visited, result, totalDistance, iterations, minProposed>>

n == Len(distances)

InitFor(sizes) ==
    /\ distances \in MatricesOf(sizes)
    /\ pc = "call"
    /\ currentPath = <<>>
    /\ bestPath = <<>>
    /\ bestDistance = 0
    /\ temperature = 0
    /\ path = <<>>
    /\ visited = {}
    /\ result = <<>>
    /\ totalDistance = 0
    /\ iterations = 0
    /\ minProposed = Inf

\* findShortestPath with n <= 10: findOptimalPath up to its loop
CallAnneal ==
    /\ pc = "call"
    /\ n <= AnnealMaxN
    /\ currentPath' = IdentityPath(n)
    /\ bestPath' = IdentityPath(n)
    /\ bestDistance' = calculatePathDistance(distances, IdentityPath(n))
    /\ temperature' = InitialTemperature * TempScale
    /\ pc' = "anneal"
    /\ UNCHANGED <<distances, path, visited, result, totalDistance,
                   iterations, minProposed>>

\* findShortestPath with n > 10: the greedy loop's initial state
CallGreedy ==
    /\ pc = "call"
    /\ ~(n <= AnnealMaxN)
    /\ path' = <<0>>
    /\ visited' = {0}
    /\ pc' = "greedy"
    /\ UNCHANGED <<distances, currentPath, bestPath, bestDistance, temperature,
                   result, totalDistance, iterations, minProposed>>

\* one iteration of while (temperature > 1)
AnnealIteration ==
    /\ pc = "anneal"
    /\ Hot(temperature)
    /\ \E newPath \in Proposals(n, currentPath) :
         LET currentDistance == calculatePathDistance(distances, currentPath)
             newDistance == calculatePathDistance(distances, newPath)
         IN
         \E accepted \in Decisions(currentDistance, newDistance, temperature) :
         LET better == NewBest(accepted, newDistance, bestDistance)
         IN  /\ currentPath' = IF accepted THEN newPath ELSE currentPath
             /\ bestPath' = IF better THEN newPath ELSE bestPath
             /\ bestDistance' = IF better THEN newDistance ELSE bestDistance
             /\ minProposed' = IF LessThan(newDistance, minProposed)
                               THEN newDistance ELSE minProposed
    /\ temperature' = Cool(temperature)
    /\ iterations' = iterations + 1
    /\ UNCHANGED <<distances, pc, path, visited, result, totalDistance>>

\* return bestPath
AnnealReturn ==
    /\ pc = "anneal"
    /\ ~Hot(temperature)
    /\ result' = bestPath
    /\ pc' = "returned"
    /\ UNCHANGED <<distances, currentPath, bestPath, bestDistance, temperature,
                   path, visited, totalDistance, iterations, minProposed>>

\* one iteration of while (visited.size < n)
GreedyIteration ==
    /\ pc = "greedy"
    /\ Cardinality(visited) < n
    /\ iterations < n - 1 + MaxStall
    /\ LET nextIndex == NextIndex(distances, path, visited)
       IN  IF nextIndex # NoIndex
           THEN /\ path' = Append(path, nextIndex)
                /\ visited' = visited \cup {nextIndex}
           ELSE UNCHANGED <<path, visited>>
    /\ iterations' = iterations + 1
    /\ UNCHANGED <<distances, pc, currentPath, bestPath, bestDistance,
                   temperature, result, totalDistance, minProposed>>

\* return path
GreedyReturn ==
    /\ pc = "greedy"
    /\ ~(Cardinality(visited) < n)
    /\ result' = path
    /\ pc' = "returned"
    /\ UNCHANGED <<distances, currentPath, bestPath, bestDistance, temperature,
                   path, visited, totalDistance, iterations, minProposed>>

\* const totalDistance = calculateTotalDistance(distances, path)
Account ==
    /\ pc = "returned"
    /\ totalDistance' = calculateTotalDistance(distances, result)
    /\ pc' = "done"
    /\ UNCHANGED <<distances, currentPath, bestPath, bestDistance, temperature,
                   path, visited, result, iterations, minProposed>>

Next ==
    \/ CallAnneal
    \/ CallGreedy
    \/ AnnealIteration
    \/ AnnealReturn
    \/ GreedyIteration
    \/ GreedyReturn
    \/ Account

Init == InitFor(Sizes)

Spec == Init /\ [][Next]_vars

\* the calls that take the annealing branch
NextAnneal == CallAnneal \/ AnnealIteration \/ AnnealReturn \/ Account

SpecAnneal == InitFor(SmallSizes) /\ [][NextAnneal]_vars

\* the calls that take the greedy branch
NextGreedy == CallGreedy \/ GreedyIteration \/ GreedyReturn \/ Account

SpecGreedy == InitFor(LargeSizes) /\ [][NextGreedy]_vars

\* ---------------------------------------------------------------- claims
Returned == pc \in {"returned", "done"}

\* p is a permutation of 0..n-1 that starts at 0
IsRoute(p) ==
    /\ Len(p) = n
    /\ p[1] = 0
    /\ \A k \in 0..(n - 1) : Cardinality({x \in 1..Len(p) : p[x] = k}) = 1

SeedDistance == calculatePathDistance(distances, IdentityPath(n))

\* exactly one ordered pair of distinct indices has cost Inf
OneInfPair == Cardinality({p \in OffDiagonal(n) : Dist(distances, p[1], p[2]) = Inf}) = 1

RECURSIVE FiniteRouteFrom(_, _)
\* some ordering of rest, walked from lastIndex, uses finite costs only
FiniteRouteFrom(lastIndex, rest) ==
    \/ rest = {}
    \/ \E k \in rest : /\ Dist(distances, lastIndex, k) # Inf
                        /\ FiniteRouteFrom(k, rest \ {k})

\* some permutation of 0..n-1 starting at 0 has finite path cost
FeasibleExists == FiniteRouteFrom(0, 1..(n - 1))

\* C1: for n >= 2 the returned route is a permutation of 0..n-1 starting at 0,
\* and so are currentPath and bestPath after every annealing iteration.
C1_RouteIsPermutation ==
    n >= 2 =>
        /\ Returned => IsRoute(result)
        /\ pc = "anneal" => IsRoute(currentPath) /\ IsRoute(bestPath)

C1_Witness ==
    /\ pc = "done"
    /\ n = 3
    /\ result = <<0, 2, 1>>
    /\ currentPath = <<0, 1, 2>>

\* C2: every iteration of the greedy loop extends the path by one index, so
\* the loop ends after exactly n - 1 iterations, also on rows that are all Inf.
C2_GreedyExtendsEveryStep ==
    pc = "greedy" => Len(path) = iterations + 1 /\ iterations <= n - 1

\* C3: the route the annealing refiner returns costs no more than the seed
\* [0, 1, ..., n-1]; the same holds of bestPath throughout the run.
C3_NeverWorseThanSeed ==
    /\ pc = "anneal" =>
          ~LessThan(SeedDistance, calculatePathDistance(distances, bestPath))
    /\ (Returned /\ n <= AnnealMaxN) =>
          ~LessThan(SeedDistance, calculateTotalDistance(distances, result))

C3_Witness ==
    /\ pc = "done"
    /\ n = 3
    /\ LessThan(totalDistance, SeedDistance)
    /\ LessThan(totalDistance, calculatePathDistance(distances, currentPath))

\* C4: the annealing loop runs the same number of iterations (1379) on every
\* matrix and for every draw, and every iteration, accepted or not, multiplies
\* temperature by 0.995; no other step writes temperature.
C4_Bounded ==
    /\ pc = "anneal" => iterations <= 1379
    /\ pc = "anneal" /\ iterations = 1379 => ~Hot(temperature)
    /\ (Returned /\ n <= AnnealMaxN) => iterations = 1379

C4_Cooling ==
    /\ (pc = "anneal" /\ pc' = "anneal") =>
          /\ iterations' = iterations + 1
          /\ (temperature - temperature') * 200 - temperature \in (0 - 100)..100
    /\ (pc # "call" /\ ~(pc = "anneal" /\ pc' = "anneal")) =>
          temperature' = temperature

C4_FixedIterationCount == [](C4_Bounded) /\ [][C4_Cooling]_vars

C4_Witness ==
    /\ pc = "done"
    /\ n = 3
    /\ iterations = 1379
    /\ result # IdentityPath(n)
    /\ currentPath # result

C6_RejectsSmallMatrix ==
    n < 2 => ~Returned

\* C7: bestDistance is the path cost of bestPath throughout the annealing run,
\* and calculateTotalDistance of the returned route equals bestDistance.
C7_BestDistanceIsCostOfBestPath ==
    /\ pc = "anneal" => bestDistance = calculatePathDistance(distances, bestPath)
    /\ (Returned /\ n <= AnnealMaxN) =>
          /\ result = bestPath
          /\ calculateTotalDistance(distances, result) = bestDistance
    /\ (pc = "done" /\ n <= AnnealMaxN) => totalDistance = bestDistance

C7_Witness ==
    /\ pc = "done"
    /\ n = 3
    /\ result = <<0, 2, 1>>
    /\ currentPath # result
    /\ totalDistance = bestDistance
    /\ IsFinite(totalDistance)

\* the unvisited index of least cost from the last placed index, the smallest
\* such index on ties
NearestUnvisited ==
    LET lastIndex == path[Len(path)]
        unvisited == (0..(n - 1)) \ visited
    IN  CHOOSE i \in unvisited : \A k \in unvisited :
            \/ Dist(distances, lastIndex, i) < Dist(distances, lastIndex, k)
            \/ Dist(distances, lastIndex, i) = Dist(distances, lastIndex, k) /\ i <= k

\* C8: every iteration of the greedy loop appends the unvisited index nearest
\* to the last placed one, the smallest index on ties.
C8_Step ==
    (pc = "greedy" /\ iterations' = iterations + 1) =>
        path' = Append(path, NearestUnvisited)

C8_AppendsNearest == [][C8_Step]_vars

\* C9: the best-seen cost never exceeds the cost of any proposal generated so
\* far, and the returned route costs no more than any proposal of the run.
C9_BestBelowEveryProposal ==
    /\ pc = "anneal" => ~LessThan(minProposed, bestDistance)
    /\ (Returned /\ n <= AnnealMaxN) =>
          ~LessThan(minProposed, calculateTotalDistance(distances, result))

C9_Witness ==
    /\ pc = "done"
    /\ n = 3
    /\ LessThan(minProposed, SeedDistance)
    /\ totalDistance = minProposed
    /\ LessThan(totalDistance, calculatePathDistance(distances, currentPath))

\* C10: a proposal that costs at least as much as the current path is accepted
\* for some draw, and one that costs the same is accepted for every draw.
C10_WorseOrEqualAcceptable ==
    (pc = "anneal" /\ Hot(temperature) /\ n >= 2) =>
        \A newPath \in Proposals(n, currentPath) :
            LET currentDistance == calculatePathDistance(distances, currentPath)
                newDistance == calculatePathDistance(distances, newPath)
            IN  /\ ~LessThan(newDistance, currentDistance) =>
                      \E draw \in AcceptDraws :
                          Accepts(currentDistance, newDistance, temperature, draw)
                /\ newDistance = currentDistance =>
                      \A draw \in AcceptDraws :
                          Accepts(currentDistance, newDistance, temperature, draw)
====
